---------------------------- MODULE Spec2Model ----------------------------
(***************************************************************************)
(* Model of scripts/analyze_scaling.py: one run of main() over a CSV file  *)
(* of experiment results.  The run is a straight-line program; every step  *)
(* of it is one action, and `pc` is the position of the run.               *)
(*                                                                         *)
(* Numbers.  Exact fractions are pairs <<num, den>> with den > 0.  The     *)
(* coefficient of variation needs a square root and is kept in tenths of   *)
(* a percent, rounded towards zero.  A Python local that is not yet bound  *)
(* is the empty tuple << >>.  The columns `target` and `smallestFactor`    *)
(* are only echoed (lines 75-76) and are left out of the rows.             *)
(***************************************************************************)
EXTENDS Integers, Sequences, FiniteSets, TLC

\* ------------------------------------------------------------- bounds
\* Largest number of CSV rows in the dataset specifications.
MaxRows == 6
\* Largest number of CSV rows where the rows come in any order.
MaxLen == 3
\* Largest number of CSV rows in the pivot-table specification.
MaxPivotRows == 4
\* Largest number of CSV rows in the ratio specification.
MaxRatioRows == 4

\* ------------------------------------------------------------- inputs
Magnitudes == {10, 20}

RequiredCols == {"magnitude", "target", "smallestFactor", "arraySize",
                 "meanSteps", "stepsPerElement", "convergenceRate"}

\* The column sets a CSV header is drawn from.
ColumnSets == {RequiredCols,
               RequiredCols \cup {"medianSteps"},
               RequiredCols \ {"arraySize"},
               RequiredCols \ {"magnitude", "meanSteps"}}

Row(m, n, s, r, c) ==
    [magnitude |-> m, arraySize |-> n, meanSteps |-> s,
     stepsPerElement |-> r, convergenceRate |-> c]

\* Rows of the general datasets: arraySize and meanSteps vary.
FitRows ==
    {Row(m, n, s, 1, 100) : m \in Magnitudes, n \in {1, 2}, s \in {0, 1, 2}}

\* Rows of the pivot datasets: arraySize, meanSteps and convergenceRate vary.
PivotRows ==
    UNION {{Row(m, n, s, 1, c) : m \in Magnitudes, n \in {1, 2}} :
              <<s, c>> \in {0, 1} \X {0, 100}}

\* Rows of the ratio datasets: stepsPerElement is any small integer, as the
\* script never checks it against meanSteps / arraySize.
RatioRows ==
    UNION {{Row(m, n, s, r, 100) : m \in Magnitudes, n \in {1, 2}} :
              <<s, r>> \in {1, 2} \X {-1, 0, 1}}

\* (arraySize, meanSteps, stepsPerElement) of the verdict datasets: fits of
\* R^2 = 1, 1/4 and 0, ratios whose CV is 0, 15 (17, 20, 23), between 15
\* and 25, above 25, and undefined (all zero).
Measurements ==
    {<<1, 1, 17>>, <<1, 1, 0>>, <<2, 2, 20>>, <<2, 2, 23>>, <<2, 1, 20>>, <<2, 1, 0>>}

VerdictRows ==
    {Row(m, t[1], t[2], t[3], 100) : m \in Magnitudes, t \in Measurements}

\* Lexicographic order of rows, magnitude first.
RowLeq(a, b) ==
    LET ka == <<a.magnitude, a.arraySize, a.meanSteps, a.stepsPerElement,
                a.convergenceRate>>
        kb == <<b.magnitude, b.arraySize, b.meanSteps, b.stepsPerElement,
                b.convergenceRate>>
    IN  \/ ka = kb
        \/ \E i \in 1..5 : /\ ka[i] < kb[i]
                           /\ \A j \in 1..(i - 1) : ka[j] = kb[j]

\* The sequences over rows of exactly n rows, in any order.
RECURSIVE SeqsOfLen(_, _)
SeqsOfLen(rows, n) ==
    IF n = 0 THEN {<< >>}
    ELSE {Append(p[1], p[2]) : p \in SeqsOfLen(rows, n - 1) \X rows}

\* The sequences over rows of exactly n rows, in RowLeq order.
RECURSIVE SortedOfLen(_, _)
SortedOfLen(rows, n) ==
    IF n = 0 THEN {<< >>}
    ELSE {Append(p[1], p[2]) :
            p \in {q \in SortedOfLen(rows, n - 1) \X rows :
                     q[1] = << >> \/ RowLeq(q[1][Len(q[1])], q[2])}}

AnyOrder(rows, max) == UNION {SeqsOfLen(rows, n) : n \in 0..max}

Sorted(rows, max) == UNION {SortedOfLen(rows, n) : n \in 0..max}

\* ------------------------------------------------------------- state
VARIABLES
    argc,           \* TRUE iff a path argument was given (len(sys.argv) >= 2)
    file,           \* the file system at that path: exists, parses, columns, rows
    pc,             \* position of the run
    out,            \* what was printed so far, one record per print group
    status,         \* exit status; -1 while running
    df,             \* the loaded DataFrame (rows), << >> before load
    df_valid,       \* the filtered DataFrame
    todo,           \* magnitudes the current for loop has still to visit
    magnitude,      \* loop variable
    slope,          \* local `slope`: << >> unbound, else a fraction
    intercept,      \* local `intercept`: << >> unbound, else a fraction
    all_r_squared,  \* list of fractions
    all_cv          \* list of CV values

vars == <<argc, file, pc, out, status, df, df_valid, todo, magnitude,
          slope, intercept, all_r_squared, all_cv>>


\* ------------------------------------------------------------- arithmetic
Abs(a) == IF a < 0 THEN -a ELSE a

Sign(a) == IF a < 0 THEN -1 ELSE IF a > 0 THEN 1 ELSE 0

RECURSIVE GCD(_, _)
GCD(a, b) == IF b = 0 THEN a ELSE GCD(b, a % b)

\* The fraction n/d (d # 0) in lowest terms with a positive denominator.
Frac(n, d) ==
    LET g == GCD(Abs(n), Abs(d))
    IN  <<Sign(d) * (n \div g), Abs(d) \div g>>

FLess(a, b) == a[1] * b[2] < b[1] * a[2]

FAdd(a, b) == Frac(a[1] * b[2] + b[1] * a[2], a[2] * b[2])

RECURSIVE SumSeq(_)
SumSeq(s) == IF s = << >> THEN 0 ELSE Head(s) + SumSeq(Tail(s))

RECURSIVE FSumSeq(_)
FSumSeq(s) == IF s = << >> THEN <<0, 1>> ELSE FAdd(Head(s), FSumSeq(Tail(s)))

\* n * sum(a*b) - sum(a) * sum(b): n^2 times the covariance of a and b.
Cross(a, b) ==
    Len(a) * SumSeq([i \in 1..Len(a) |-> a[i] * b[i]]) - SumSeq(a) * SumSeq(b)

\* The largest r in lo..hi with r*r <= z (lo*lo <= z is given).
RECURSIVE SqrtIn(_, _, _)
SqrtIn(z, lo, hi) ==
    IF lo >= hi THEN lo
    ELSE LET mid == (lo + hi + 1) \div 2
         IN  IF mid * mid <= z THEN SqrtIn(z, mid, hi) ELSE SqrtIn(z, lo, mid - 1)

ISqrt(z) == SqrtIn(z, 0, 46340)

\* Sorted list of the elements of a finite set of integers.
RECURSIVE SortedSeq(_)
SortedSeq(S) ==
    IF S = {} THEN << >>
    ELSE LET m == CHOOSE a \in S : \A b \in S : a <= b
         IN  <<m>> \o SortedSeq(S \ {m})

Column(d, c) == [i \in 1..Len(d) |-> d[i][c]]

Unique(d, c) == {d[i][c] : i \in 1..Len(d)}

\* ------------------------------------------------------------- numpy / scipy
\* scipy.stats.linregress(x, y): raises ValueError when all x are identical;
\* r is 0 when y has no variance.
LinRegress(x, y) ==
    LET n    == Len(x)
        sxx  == Cross(x, x)
        syy  == Cross(y, y)
        sxy  == Cross(x, y)
    IN  IF sxx = 0
        THEN [ok |-> FALSE, slope |-> <<0, 1>>, intercept |-> <<0, 1>>,
              r_squared |-> <<0, 1>>]
        ELSE [ok |-> TRUE,
              slope |-> Frac(sxy, sxx),
              intercept |-> Frac(SumSeq(y) * sxx - sxy * SumSeq(x), n * sxx),
              r_squared |-> IF syy = 0 THEN <<0, 1>>
                            ELSE Frac(sxy * sxy, sxx * syy)]

\* np.std(ratios, ddof=1) / |np.mean(ratios)| * 100 in tenths of a percent,
\* for a mean that is not zero: 1000 * sqrt(n * P / ((n-1) * s^2)) with
\* P = n * sum(r^2) - sum(r)^2 and s = sum(r).
StdOverMeanTenths(ratios) ==
    LET n  == Len(ratios)
        s  == SumSeq(ratios)
        a  == n * Cross(ratios, ratios)
        b  == (n - 1) * s * s
        hi == (10000 * a) \div b
        lo == (((10000 * a) % b) * 100) \div b
    IN  ISqrt(hi * 100 + lo)

Fin(v) == [k |-> "fin", v |-> v]
Inf == [k |-> "inf", v |-> 0]
NaN == [k |-> "nan", v |-> 0]

\* Lines 109-111: std is 0 for a single ratio, the CV is inf unless mean > 0.
BlockCv(ratios) ==
    IF SumSeq(ratios) > 0
    THEN IF Len(ratios) > 1 THEN Fin(StdOverMeanTenths(ratios)) ELSE Fin(0)
    ELSE Inf

\* Line 193: std / mean * 100 with numpy's division (x/0 is inf, 0/0 is nan),
\* 0 for a single ratio.
SummaryCv(ratios) ==
    LET s == SumSeq(ratios)
    IN  IF Len(ratios) > 1
        THEN IF s # 0 THEN Fin(Sign(s) * StdOverMeanTenths(ratios))
             ELSE IF Cross(ratios, ratios) = 0 THEN NaN ELSE Inf
        ELSE Fin(0)

\* cv < t for t in percent; comparisons with nan and inf are false.
CvLess(cv, t) == cv.k = "fin" /\ cv.v < 10 * t

\* np.mean of a non-empty list of CV values, as <<sum in tenths, count>>.
MeanCv(cvs) ==
    IF \E i \in 1..Len(cvs) : cvs[i].k = "nan" THEN [k |-> "nan", s |-> 0, n |-> 1]
    ELSE IF \E i \in 1..Len(cvs) : cvs[i].k = "inf" THEN [k |-> "inf", s |-> 0, n |-> 1]
    ELSE [k |-> "fin", s |-> SumSeq([i \in 1..Len(cvs) |-> cvs[i].v]), n |-> Len(cvs)]

MeanCvLess(m, t) == m.k = "fin" /\ m.s < 10 * t * m.n

\* np.mean of a non-empty list of fractions.
MeanFrac(fs) ==
    LET t == FSumSeq(fs)
    IN  Frac(t[1], t[2] * Len(fs))

\* Twice the average rank of v[i] in v (scipy.stats.rankdata, method average).
Rank2(v, i) ==
    2 * Cardinality({j \in 1..Len(v) : v[j] < v[i]})
      + Cardinality({j \in 1..Len(v) : v[j] = v[i]}) + 1

\* Smallest rho^2 (in thousandths, rounded up) whose two-sided p-value,
\* Student t with dof degrees of freedom, is at most 0.05.
CriticalRho2(dof) ==
    CASE dof = 1 -> 994
      [] dof = 2 -> 903
      [] dof = 3 -> 772
      [] dof = 4 -> 659
      [] dof = 5 -> 570
      [] dof = 6 -> 500
      [] OTHER   -> 445

\* scipy.stats.spearmanr(x, e): "nan" for a constant input, else whether
\* p > 0.05 ("none") and the sign of the correlation ("super" / "sub").
SpearmanVerdict(x, e) ==
    LET rx  == [i \in 1..Len(x) |-> Rank2(x, i)]
        re  == [i \in 1..Len(e) |-> Rank2(e, i)]
        sxx == Cross(rx, rx)
        see == Cross(re, re)
        sxe == Cross(rx, re)
    IN  IF sxx = 0 \/ see = 0 THEN "nan"
        ELSE IF 1000 * sxe * sxe < CriticalRho2(Len(x) - 2) * sxx * see
             THEN "none"
             ELSE IF sxe > 0 THEN "super" ELSE "sub"

\* Line 127: y - (slope * x + intercept), each residual times the common
\* positive denominator slope[2] * intercept[2].
Residuals(x, y, sl, ic) ==
    [i \in 1..Len(x) |->
        y[i] * sl[2] * ic[2] - (sl[1] * x[i] * ic[2] + ic[1] * sl[2])]

\* ------------------------------------------------------------- main
Ev(tag, mag, val) == [tag |-> tag, mag |-> mag, val |-> val]

Exit(code) == /\ status' = code
              /\ pc' = "exit"

\* Faulty variant of MissingCols: the schema check is skipped.
MissingColsUnchecked(columns) == {}

\* Line 43: the required columns that df.columns lacks.
MissingCols(columns) == RequiredCols \ columns

\* Faulty variant of FilterValid: rows with meanSteps = 0 are kept.
FilterValidNonNegative(d) == SelectSeq(d, LAMBDA r : r.meanSteps >= 0)

\* Line 54: df[df['meanSteps'] > 0].copy()
FilterValid(d) == SelectSeq(d, LAMBDA r : r.meanSteps > 0)

\* Faulty variant of NoValidData: the empty result is not detected.
NoValidDataIgnored(d) == FALSE

\* Line 56: len(df_valid) == 0
NoValidData(d) == Len(d) = 0

\* Lines 66 and 183: sorted(df_valid['magnitude'].unique())
SortedMagnitudes(d) == SortedSeq(Unique(d, "magnitude"))

\* Lines 67 and 184: df_valid[df_valid['magnitude'] == magnitude]
Subset(d, m) == SelectSeq(d, LAMBDA r : r.magnitude = m)

\* Faulty variant of TooFewPoints: two points are taken as enough.
TooFewPointsBelowTwo(sub) == Len(sub) < 2

\* Line 69: len(subset) < 3
TooFewPoints(sub) == Len(sub) < 3

\* Line 185: len(subset) >= 3
EnoughPoints(sub) == Len(sub) >= 3

\* Lines 94-101: the class of an R^2.
FitClass(r2) ==
    IF FLess(<<98, 100>>, r2) THEN "excellent"
    ELSE IF FLess(<<95, 100>>, r2) THEN "good"
    ELSE IF FLess(<<90, 100>>, r2) THEN "moderate"
    ELSE "poor"

\* Lines 117-122: the class of a coefficient of variation.
StabilityClass(cv) ==
    IF CvLess(cv, 10) THEN "strong"
    ELSE IF CvLess(cv, 20) THEN "moderate"
    ELSE "weak"

\* Faulty variant of Verdict: a mean CV of exactly 15 counts as strong.
VerdictInclusive(avg_r_squared, avg_cv) ==
    IF /\ FLess(<<95, 100>>, avg_r_squared)
       /\ (MeanCvLess(avg_cv, 15) \/ (avg_cv.k = "fin" /\ avg_cv.s = 150 * avg_cv.n))
    THEN "strong"
    ELSE IF FLess(<<90, 100>>, avg_r_squared) /\ MeanCvLess(avg_cv, 25)
         THEN "moderate"
         ELSE "insufficient"

\* Lines 207-215: the final verdict.
Verdict(avg_r_squared, avg_cv) ==
    IF FLess(<<95, 100>>, avg_r_squared) /\ MeanCvLess(avg_cv, 15) THEN "strong"
    ELSE IF FLess(<<90, 100>>, avg_r_squared) /\ MeanCvLess(avg_cv, 25)
         THEN "moderate"
         ELSE "insufficient"

\* Faulty variant of PivotTable: a cell without records is filled with 0.
PivotTableZeroFilled(d) ==
    [c \in Unique(d, "arraySize") \X Unique(d, "magnitude") |->
        LET cell == SelectSeq(d, LAMBDA r : r.arraySize = c[1] /\ r.magnitude = c[2])
        IN  IF cell = << >> THEN <<0, 1>>
            ELSE Frac(SumSeq(Column(cell, "convergenceRate")), Len(cell))]

\* Lines 158-163: df_valid.pivot_table(values='convergenceRate',
\* index='arraySize', columns='magnitude', aggfunc='mean').  A cell is the
\* mean as a fraction, or << >> (NaN, printed blank) without records.
PivotTable(d) ==
    [c \in Unique(d, "arraySize") \X Unique(d, "magnitude") |->
        LET cell == SelectSeq(d, LAMBDA r : r.arraySize = c[1] /\ r.magnitude = c[2])
        IN  IF cell = << >> THEN << >>
            ELSE Frac(SumSeq(Column(cell, "convergenceRate")), Len(cell))]

\* Lines 22-26
CheckUsage ==
    /\ pc = "usage"
    /\ IF ~argc
       THEN /\ out' = Append(out, Ev("usage", 0, << >>))
            /\ Exit(1)
       ELSE /\ pc' = "exists"
            /\ UNCHANGED <<out, status>>
    /\ UNCHANGED <<argc, file, df, df_valid, todo, magnitude, slope, intercept,
                   all_r_squared, all_cv>>

\* Lines 29-31
CheckExists ==
    /\ pc = "exists"
    /\ IF ~file.exists
       THEN /\ out' = Append(out, Ev("not_found", 0, << >>))
            /\ Exit(1)
       ELSE /\ pc' = "read"
            /\ UNCHANGED <<out, status>>
    /\ UNCHANGED <<argc, file, df, df_valid, todo, magnitude, slope, intercept,
                   all_r_squared, all_cv>>

\* Lines 34-38
ReadCsv ==
    /\ pc = "read"
    /\ IF ~file.parses
       THEN /\ out' = Append(out, Ev("parse_error", 0, << >>))
            /\ Exit(1)
            /\ UNCHANGED df
       ELSE /\ df' = file.rows
            /\ pc' = "columns"
            /\ UNCHANGED <<out, status>>
    /\ UNCHANGED <<argc, file, df_valid, todo, magnitude, slope, intercept,
                   all_r_squared, all_cv>>

\* Lines 41-46
ValidateColumns ==
    /\ pc = "columns"
    /\ IF MissingCols(file.columns) # {}
       THEN /\ out' = Append(out, Ev("missing_cols", 0, MissingCols(file.columns)))
            /\ Exit(1)
       ELSE /\ pc' = "filter"
            /\ UNCHANGED <<out, status>>
    /\ UNCHANGED <<argc, file, df, df_valid, todo, magnitude, slope, intercept,
                   all_r_squared, all_cv>>

\* Lines 48-66: banner, filter, totals, and the list the first loop walks.
Filter ==
    /\ pc = "filter"
    /\ df_valid' = FilterValid(df)
    /\ IF NoValidData(df_valid')
       THEN /\ out' = out \o <<Ev("banner", 0, << >>), Ev("no_valid_data", 0, << >>)>>
            /\ Exit(1)
            /\ UNCHANGED todo
       ELSE /\ out' = out \o <<Ev("banner", 0, << >>),
                               Ev("totals", 0, <<Len(df), Len(df_valid')>>)>>
            /\ todo' = SortedMagnitudes(df_valid')
            /\ pc' = "loop"
            /\ UNCHANGED status
    /\ UNCHANGED <<argc, file, df, magnitude, slope, intercept,
                   all_r_squared, all_cv>>

\* Lines 66-72: a partition of fewer than 3 points is skipped.
PartitionInsufficient ==
    /\ pc = "loop"
    /\ todo # << >>
    /\ TooFewPoints(Subset(df_valid, Head(todo)))
    /\ magnitude' = Head(todo)
    /\ todo' = Tail(todo)
    /\ out' = Append(out, Ev("insufficient", Head(todo),
                             Len(Subset(df_valid, Head(todo)))))
    /\ UNCHANGED <<argc, file, pc, status, df, df_valid, slope, intercept,
                   all_r_squared, all_cv>>

\* Lines 66-77: the head of a partition's block.
PartitionHeader ==
    /\ pc = "loop"
    /\ todo # << >>
    /\ ~TooFewPoints(Subset(df_valid, Head(todo)))
    /\ magnitude' = Head(todo)
    /\ todo' = Tail(todo)
    /\ out' = Append(out, Ev("header", Head(todo),
                             Len(Subset(df_valid, Head(todo)))))
    /\ pc' = "fit"
    /\ UNCHANGED <<argc, file, status, df, df_valid, slope, intercept,
                   all_r_squared, all_cv>>

\* Faulty variant of LinearFit: the ValueError of linregress is not caught
\* and ends the run with a traceback and status 1.
LinearFitUncaught ==
    /\ pc = "fit"
    /\ LET sub == Subset(df_valid, magnitude)
           fit == LinRegress(Column(sub, "arraySize"), Column(sub, "meanSteps"))
       IN  IF fit.ok
           THEN /\ slope' = fit.slope
                /\ intercept' = fit.intercept
                /\ out' = Append(out, Ev("fit", magnitude,
                              [slope |-> fit.slope, intercept |-> fit.intercept,
                               r_squared |-> fit.r_squared,
                               class |-> FitClass(fit.r_squared)]))
                /\ pc' = "ratio"
                /\ UNCHANGED status
           ELSE /\ out' = Append(out, Ev("regression_error", magnitude, << >>))
                /\ Exit(1)
                /\ UNCHANGED <<slope, intercept>>
    /\ UNCHANGED <<argc, file, df, df_valid, todo, magnitude,
                   all_r_squared, all_cv>>

\* Lines 80-104: slope and intercept are bound only when linregress returns.
LinearFit ==
    /\ pc = "fit"
    /\ LET sub == Subset(df_valid, magnitude)
           fit == LinRegress(Column(sub, "arraySize"), Column(sub, "meanSteps"))
       IN  IF fit.ok
           THEN /\ slope' = fit.slope
                /\ intercept' = fit.intercept
                /\ out' = Append(out, Ev("fit", magnitude,
                              [slope |-> fit.slope, intercept |-> fit.intercept,
                               r_squared |-> fit.r_squared,
                               class |-> FitClass(fit.r_squared)]))
           ELSE /\ out' = Append(out, Ev("regression_error", magnitude, << >>))
                /\ UNCHANGED <<slope, intercept>>
    /\ pc' = "ratio"
    /\ UNCHANGED <<argc, file, status, df, df_valid, todo, magnitude,
                   all_r_squared, all_cv>>

\* Lines 107-122
RatioStats ==
    /\ pc = "ratio"
    /\ LET cv == BlockCv(Column(Subset(df_valid, magnitude), "stepsPerElement"))
       IN  out' = Append(out, Ev("ratio", magnitude,
                                 [cv |-> cv, class |-> StabilityClass(cv)]))
    /\ pc' = "trend"
    /\ UNCHANGED <<argc, file, status, df, df_valid, todo, magnitude,
                   slope, intercept, all_r_squared, all_cv>>

\* Lines 125-139: reading an unbound `slope` raises NameError, which the
\* except clause reports; a nan p-value fails `trend_p > 0.05` and a nan
\* correlation fails `corr > 0`.
ResidualTrend ==
    /\ pc = "trend"
    /\ IF slope = << >> \/ intercept = << >>
       THEN out' = Append(out, Ev("trend_warning", magnitude, << >>))
       ELSE LET sub == Subset(df_valid, magnitude)
                x   == Column(sub, "arraySize")
                y   == Column(sub, "meanSteps")
                v   == SpearmanVerdict(x, Residuals(x, y, slope, intercept))
            IN  out' = Append(out, Ev("trend", magnitude,
                          [verdict   |-> IF v = "none" THEN "none" ELSE "deviation",
                           direction |-> IF v = "super" THEN "super"
                                         ELSE IF v = "none" THEN "-" ELSE "sub",
                           p_is_nan  |-> v = "nan"]))
    /\ pc' = "conv"
    /\ UNCHANGED <<argc, file, status, df, df_valid, todo, magnitude,
                   slope, intercept, all_r_squared, all_cv>>

\* Lines 142-148
ConvergenceSummary ==
    /\ pc = "conv"
    /\ LET sub == Subset(df_valid, magnitude)
       IN  out' = Append(out, Ev("convergence", magnitude,
                     Frac(SumSeq(Column(sub, "convergenceRate")), Len(sub))))
    /\ pc' = "loop"
    /\ UNCHANGED <<argc, file, status, df, df_valid, todo, magnitude,
                   slope, intercept, all_r_squared, all_cv>>

\* Lines 151-183: the pivot table, the summary banner, the empty lists and
\* the list the second loop walks.
CrossPartitionSummary ==
    /\ pc = "loop"
    /\ todo = << >>
    /\ out' = out \o <<Ev("pivot", 0, PivotTable(df_valid)),
                       Ev("summary_banner", 0, << >>)>>
    /\ all_r_squared' = << >>
    /\ all_cv' = << >>
    /\ todo' = SortedMagnitudes(df_valid)
    /\ pc' = "summary"
    /\ UNCHANGED <<argc, file, status, df, df_valid, magnitude, slope, intercept>>

\* Lines 183-196: one turn of the second loop.
SummaryPartition ==
    /\ pc = "summary"
    /\ todo # << >>
    /\ magnitude' = Head(todo)
    /\ todo' = Tail(todo)
    /\ LET sub == Subset(df_valid, Head(todo))
           fit == LinRegress(Column(sub, "arraySize"), Column(sub, "meanSteps"))
       IN  IF EnoughPoints(sub) /\ fit.ok
           THEN /\ all_r_squared' = Append(all_r_squared, fit.r_squared)
                /\ all_cv' = Append(all_cv,
                                    SummaryCv(Column(sub, "stepsPerElement")))
           ELSE UNCHANGED <<all_r_squared, all_cv>>
    /\ UNCHANGED <<argc, file, pc, out, status, df, df_valid, slope, intercept>>

\* Lines 198-218
OverallVerdict ==
    /\ pc = "summary"
    /\ todo = << >>
    /\ IF all_r_squared # << >>
       THEN LET avg_r_squared == MeanFrac(all_r_squared)
                avg_cv        == MeanCv(all_cv)
            IN  out' = out \o
                    <<Ev("averages", 0, [r_squared |-> avg_r_squared, cv |-> avg_cv]),
                      Ev("conclusion", 0, Verdict(avg_r_squared, avg_cv)),
                      Ev("footer", 0, << >>)>>
       ELSE out' = Append(out, Ev("footer", 0, << >>))
    /\ Exit(0)
    /\ UNCHANGED <<argc, file, df, df_valid, todo, magnitude, slope, intercept,
                   all_r_squared, all_cv>>

\* The state when main() is entered.  A file that cannot be loaded (or no
\* path at all) comes with every combination of the four faults and no rows;
\* a loadable file with exactly the required columns carries the dataset.
InitWith(datasets) ==
    /\ \/ /\ argc = TRUE
          /\ file \in [exists : {TRUE}, parses : {TRUE}, columns : {RequiredCols},
                       rows : datasets]
       \/ /\ argc \in BOOLEAN
          /\ file \in [exists : BOOLEAN, parses : BOOLEAN, columns : ColumnSets,
                       rows : {<< >>}]
    /\ pc = "usage"
    /\ out = << >>
    /\ status = -1
    /\ df = << >>
    /\ df_valid = << >>
    /\ todo = << >>
    /\ magnitude = 0
    /\ slope = << >>
    /\ intercept = << >>
    /\ all_r_squared = << >>
    /\ all_cv = << >>

Init == InitWith(Sorted(FitRows, MaxRows))

InitPivot == InitWith(Sorted(PivotRows, MaxPivotRows))

InitRatio == InitWith(Sorted(RatioRows, MaxRatioRows))

InitVerdict == InitWith(Sorted(VerdictRows, MaxRows))

InitFilter == InitWith(AnyOrder(FitRows, MaxLen))

Next ==
    \/ CheckUsage
    \/ CheckExists
    \/ ReadCsv
    \/ ValidateColumns
    \/ Filter
    \/ PartitionInsufficient
    \/ PartitionHeader
    \/ LinearFit
    \/ RatioStats
    \/ ResidualTrend
    \/ ConvergenceSummary
    \/ CrossPartitionSummary
    \/ SummaryPartition
    \/ OverallVerdict

Spec == Init /\ [][Next]_vars

SpecPivot == InitPivot /\ [][Next]_vars

SpecRatio == InitRatio /\ [][Next]_vars

SpecVerdict == InitVerdict /\ [][Next]_vars

SpecFilter == InitFilter /\ [][Next]_vars

\* ------------------------------------------------------------- properties
Done == pc = "exit"

Has(tag) == \E i \in 1..Len(out) : out[i].tag = tag

HasFor(tag, m) == \E i \in 1..Len(out) : out[i].tag = tag /\ out[i].mag = m

\* The first of the four load faults of the input, in the order of the checks.
FirstFatal ==
    IF ~argc THEN "usage"
    ELSE IF ~file.exists THEN "not_found"
    ELSE IF ~file.parses THEN "parse_error"
    ELSE IF ~(RequiredCols \subseteq file.columns) THEN "missing_cols"
    ELSE "none"

\* Positions of the rows of the file with meanSteps > 0.
ValidIdx == {k \in 1..Len(file.rows) : file.rows[k].meanSteps > 0}

RECURSIVE SumOver(_, _)
SumOver(S, f) ==
    IF S = {} THEN 0
    ELSE LET k == CHOOSE j \in S : TRUE
         IN  f[k] + SumOver(S \ {k}, f)

\* C1: with any of the four load faults, the run prints nothing but the
\* diagnostic of the first fault in the order usage, not-found, parse,
\* schema, never reaches the report, and ends with a non-zero status.
C1_FatalFaultsPrintNoReport ==
    FirstFatal # "none" =>
        /\ pc \in {"usage", "exists", "read", "columns", "exit"}
        /\ Len(out) <= 1
        /\ \A i \in 1..Len(out) : out[i].tag = FirstFatal
        /\ Len(out) = 1 <=> Done
        /\ Done => status = 1
        /\ ~Done => status = -1

\* A run that ended on "file not found" though the file would not parse either.
C1_Witness ==
    /\ Done
    /\ argc /\ ~file.exists /\ ~file.parses
    /\ status = 1
    /\ Len(out) = 1 /\ out[1].tag = "not_found"

\* C2: when no row has meanSteps > 0 the run ends with a non-zero status
\* and prints no partition block, no pivot table and no summary.
C2_NoValidDataIsTerminal ==
    (FirstFatal = "none" /\ ValidIdx = {}) =>
        /\ pc \in {"usage", "exists", "read", "columns", "filter", "exit"}
        /\ \A i \in 1..Len(out) : out[i].tag \in {"banner", "no_valid_data"}
        /\ Done => /\ status = 1
                   /\ Has("no_valid_data")
        /\ ~Done => status = -1 /\ out = << >>

\* A run over three rows, all with meanSteps = 0, that has ended.
C2_Witness ==
    /\ Done
    /\ FirstFatal = "none"
    /\ Len(file.rows) = 3 /\ ValidIdx = {}
    /\ status = 1
    /\ Has("no_valid_data")

\* The partitions of the filtered dataset.
Partitions == Unique(df_valid, "magnitude")

SizesOf(m) == Unique(Subset(df_valid, m), "arraySize")

ReportedUndefined(m) == HasFor("insufficient", m) \/ HasFor("regression_error", m)

ReportedDefined(m) == HasFor("fit", m)

\* C3 as stated: a partition's fit is reported undefined iff it has fewer
\* than 2 records or a single arraySize value.
C3_UndefinedIffFewerThanTwo ==
    \A m \in Partitions :
        (ReportedUndefined(m) \/ ReportedDefined(m)) =>
            (ReportedUndefined(m) <=>
                (Len(Subset(df_valid, m)) < 2 \/ Cardinality(SizesOf(m)) = 1))

\* C3 (amended): a partition's fit is reported undefined iff it has fewer
\* than 3 records or a single arraySize value, it is reported defined
\* otherwise, never both, and a partition of fewer than 3 records does not
\* stop the run: the run of a dataset with valid rows ends with status 0.
C3_UndefinedIffFewerThanThree ==
    /\ \A m \in Partitions :
        (ReportedUndefined(m) \/ ReportedDefined(m)) =>
            /\ ReportedUndefined(m) <=>
                  (Len(Subset(df_valid, m)) < 3 \/ Cardinality(SizesOf(m)) = 1)
            /\ ReportedDefined(m) <=> ~ReportedUndefined(m)
    /\ (Done /\ Partitions # {}) => status = 0

\* A finished run with a partition of two records of different arraySize
\* (reported insufficient) and a partition of three or more records of one
\* arraySize (regression error).
C3_Witness ==
    /\ Done /\ status = 0
    /\ \E m \in Partitions :
          /\ Len(Subset(df_valid, m)) = 2
          /\ Cardinality(SizesOf(m)) = 2
          /\ HasFor("insufficient", m)
    /\ \E m \in Partitions :
          /\ Len(Subset(df_valid, m)) >= 3
          /\ Cardinality(SizesOf(m)) = 1
          /\ HasFor("regression_error", m)

\* Some partition's regression has failed.
RegressionFailed == Has("regression_error")

\* The run has ended with status 0 and, after every regression error, the
\* report goes on with a block for every later partition, the pivot table,
\* the summary banner and the closing line.
ReportCompleted ==
    /\ Done
    /\ status = 0
    /\ \A i \in 1..Len(out) :
          out[i].tag = "regression_error" =>
              /\ \A m \in Partitions :
                    m > out[i].mag =>
                        \E j \in (i + 1)..Len(out) :
                            /\ out[j].tag \in {"insufficient", "header"}
                            /\ out[j].mag = m
              /\ \E j \in (i + 1)..Len(out) :
                    /\ out[j].tag = "pivot"
                    /\ \E k \in (j + 1)..Len(out) :
                          /\ out[k].tag = "summary_banner"
                          /\ out[Len(out)].tag = "footer"
                          /\ k < Len(out)

\* C4: a degenerate regression in one partition does not abort the run:
\* after a regression error the run goes on (it has no exit status until
\* the report is complete), and when it has ended the blocks of the later
\* partitions, the pivot table and the summary were printed and the status
\* is 0.
C4_RegressionErrorIsRecovered ==
    RegressionFailed =>
        /\ Done => ReportCompleted
        /\ ~Done => (status = -1 /\ pc \in {"ratio", "trend", "conv", "loop",
                                            "fit", "summary"})

\* A finished run whose first partition had a regression error and whose
\* second partition got its full block afterwards.
C4_Witness ==
    /\ Done /\ status = 0
    /\ \E i \in 1..Len(out) :
          /\ out[i].tag = "regression_error"
          /\ \E j \in (i + 1)..Len(out) :
                /\ out[j].tag = "fit"
                /\ out[j].mag > out[i].mag
    /\ Has("pivot")

\* C5: a partition whose fit is undefined gets no residual-trend verdict;
\* a slope and intercept left by an earlier partition are never used.
C5_NoTrendWithoutFit ==
    \A m \in Partitions : ReportedUndefined(m) => ~HasFor("trend", m)

\* C6: a finished report carries one of the three verdicts or an explicit
\* statement that the verdict is undefined.
C6_VerdictOrUndefinedReported ==
    (Done /\ status = 0) =>
        \E i \in 1..Len(out) : out[i].tag \in {"conclusion", "undefined_verdict"}

\* C7: the pivot table has one row per arraySize and one column per
\* magnitude of the valid rows of the file; a cell is blank iff no valid row
\* has that pair, and is otherwise the mean convergenceRate of those rows.
C7_PivotShapeAndCells ==
    \A i \in 1..Len(out) :
        out[i].tag = "pivot" =>
            LET t == out[i].val
            IN  /\ DOMAIN t = {file.rows[k].arraySize : k \in ValidIdx}
                                \X {file.rows[k].magnitude : k \in ValidIdx}
                /\ \A c \in DOMAIN t :
                      LET K == {k \in ValidIdx : /\ file.rows[k].arraySize = c[1]
                                                 /\ file.rows[k].magnitude = c[2]}
                          rates == [k \in 1..Len(file.rows) |->
                                        file.rows[k].convergenceRate]
                      IN  IF K = {} THEN t[c] = << >>
                          ELSE /\ t[c] # << >>
                               /\ t[c][1] * Cardinality(K) = t[c][2] * SumOver(K, rates)

\* A pivot table with a blank cell, a cell that averages 0 and 100 to 50,
\* and a column for a magnitude whose partition was reported insufficient.
C7_Witness ==
    \E i \in 1..Len(out) :
        /\ out[i].tag = "pivot"
        /\ \E c \in DOMAIN out[i].val : out[i].val[c] = << >>
        /\ \E c \in DOMAIN out[i].val :
              /\ out[i].val[c] = <<50, 1>>
              /\ HasFor("insufficient", c[2])

\* The filter step has run.
Filtered == Has("banner")

\* C8: the filter keeps exactly the rows with meanSteps > 0, in their
\* order and unchanged, and leaves the loaded dataset as it was read; on a
\* dataset of valid rows it returns the dataset, and filtering its result
\* again changes nothing.
C8_FilterKeepsValidRowsInOrder ==
    Filtered =>
        /\ df = file.rows
        /\ Len(df_valid) = Cardinality(ValidIdx)
        /\ \A k \in ValidIdx :
              df_valid[Cardinality({j \in ValidIdx : j <= k})] = file.rows[k]
        /\ (ValidIdx = 1..Len(file.rows)) => df_valid = file.rows
        /\ FilterValid(df_valid) = df_valid

\* Three rows out of order, the middle one invalid: the two others are kept
\* in their order.
C8_Witness ==
    /\ Filtered
    /\ Len(df) = 3
    /\ ValidIdx = {1, 3}
    /\ ~RowLeq(df[1], df[3])
    /\ df_valid = <<df[1], df[3]>>

\* The partitions that got a defined fit in the per-partition phase, in
\* the order of the loops.
DefinedFits == SortedSeq({m \in Partitions : ReportedDefined(m)})

\* The R^2 printed in the block of partition m.
BlockRSquared(m) ==
    LET i == CHOOSE j \in 1..Len(out) : out[j].tag = "fit" /\ out[j].mag = m
    IN  out[i].val.r_squared

\* The coefficient of variation printed in the block of partition m.
BlockCvOf(m) ==
    LET i == CHOOSE j \in 1..Len(out) : out[j].tag = "ratio" /\ out[j].mag = m
    IN  out[i].val.cv

\* stddev / mean * 100 of the stepsPerElement of partition m, infinite for a
\* zero mean.
CvOf(m) ==
    LET ratios == Column(Subset(df_valid, m), "stepsPerElement")
    IN  IF SumSeq(ratios) = 0 THEN Inf
        ELSE Fin(Sign(SumSeq(ratios)) * StdOverMeanTenths(ratios))

\* The verdict printed in the summary, "none" when there is none.
Conclusion ==
    IF Has("conclusion")
    THEN out[CHOOSE j \in 1..Len(out) : out[j].tag = "conclusion"].val
    ELSE "none"

C10_SummaryCvIsBlockCv ==
    (Done /\ status = 0 /\ Len(all_cv) = Len(DefinedFits)) =>
        \A i \in 1..Len(DefinedFits) : all_cv[i] = BlockCvOf(DefinedFits[i])

=============================================================================
